---- MODULE Spec2Model ----
(***************************************************************************)
(* Model of mozci/buildjson.py: the date-partitioned archive cache         *)
(* (_daily_jobs) and the lookup by request id (query_buildjson_info).      *)
(*                                                                         *)
(* A byte stream (an HTTP body, a file's content) is a sequence of chunks. *)
(* A chunk is one lexical piece of a document; json.load turns a complete  *)
(* well-formed sequence back into a document and fails on anything else.   *)
(* fd.write is modelled unbuffered: every content the file can show while  *)
(* it is being written is a prefix of the body, as with a buffered writer. *)
(*                                                                         *)
(* The repository registry (query_repositories of mozci.sources.buildapi,  *)
(* of which the repository holds the tests only) is modelled after its     *)
(* description: a memory tier, a snapshot file and the remote document.    *)
(***************************************************************************)
EXTENDS Integers, Sequences, FiniteSets, TLC

\* ---------------------------------------------------------------- bounds
MaxBuilds == 2          \* longest upstream "builds" sequence
MaxFetches == 2         \* requests.get calls counted per locator
NumThreads == 2         \* callers that exist; Spec serialises them

\* ------------------------------------------------------- program constants
BUILDJSON_DATA == "http://builddata.pub.build.mozilla.org/builddata/buildjson"
SecondsPerDay == 86400

\* ----------------------------------------------------------------- inputs
Threads == 1..NumThreads
Serial == {1}           \* the one caller of a single-threaded program

\* utcoffset, in seconds, of the host's local zone: UTC and US/Pacific (PST)
TZOffsets == {0, -28800}

\* Python values carry their type; PyStr(n) is the decimal string of n
PyInt(n) == [type |-> "int", v |-> n]
PyStr(n) == [type |-> "str", v |-> n]
NoValue == [type |-> "unset", v |-> 0]

\* 86000 is on 1970-01-01 in both zones; 90000 is on 1970-01-02 in UTC and
\* on 1970-01-01 in PST
TimestampInts == {86000, 90000}
TimestampValues ==
    {PyInt(n) : n \in TimestampInts} \cup {PyStr(86000)}
RequestIdInts == {10, 11, 12}
RequestIdValues == {PyInt(n) : n \in RequestIdInts} \cup {PyStr(11)}

\* job records of the upstream archives
NoJob == [builder_id |-> 0, request_ids |-> {}]
Jobs == { [builder_id |-> 1, request_ids |-> {10, 11}],
          [builder_id |-> 2, request_ids |-> {11}] }
\* the one job of the second day's archive
LaterJob == [builder_id |-> 3, request_ids |-> {12}]

RECURSIVE SeqsUpTo(_, _)
SeqsUpTo(S, n) ==
    IF n = 0 THEN {<<>>}
    ELSE LET shorter == SeqsUpTo(S, n - 1)
         IN  shorter \cup
             {Append(s, x) : s \in {q \in shorter : Len(q) = n - 1}, x \in S}
Archives == SeqsUpTo(Jobs, MaxBuilds)

\* ------------------------------------------------------------ pure helpers
\* datetime.datetime.fromtimestamp(ts).strftime('%Y-%m-%d'): the calendar
\* day of ts on the host's local clock, as <<year, month, day>> (January 1970)
strftime_date(ts, utcoffset) ==
    <<1970, 1, ((ts + utcoffset) \div SecondsPerDay) + 1>>

\* a file name without the date: every day shares one file
data_file_name_undated(date) == <<"builds-", <<1970, 1, 1>>, ".js">>

\* "builds-%s.js" % date
data_file_name(date) == <<"builds-", date, ".js">>

\* the locator is built for another day than the file
url_of_other_day(file) ==
    <<BUILDJSON_DATA, "/",
      IF file = data_file_name(<<1970, 1, 1>>)
      THEN data_file_name(<<1970, 1, 2>>)
      ELSE data_file_name(<<1970, 1, 1>>),
      ".gz">>

\* "%s/%s.gz" % (BUILDJSON_DATA, data_file)
url_of(file) == <<BUILDJSON_DATA, "/", file, ".gz">>

Dates == {strftime_date(ts, z) : ts \in TimestampInts, z \in TZOffsets}
FileNames == {data_file_name(d) : d \in Dates}
Urls == {url_of(f) : f \in FileNames}

\* chunks of a body
Chunk(tok, job) == [tok |-> tok, job |-> job]
OpenChunk == Chunk("{\"builds\": [", NoJob)
CloseChunk == Chunk("]}", NoJob)
HtmlChunk == Chunk("<html>404</html>", NoJob)
EmptyObjChunk == Chunk("{}", NoJob)

\* the decompressed body of an archive: {"builds": [job, ...]}
json_dump(builds) ==
    <<OpenChunk>> \o [i \in 1..Len(builds) |-> Chunk("job", builds[i])]
                  \o <<CloseChunk>>

\* bodies a server sends with a non-success status
ErrorBodies == { <<HtmlChunk>>, <<EmptyObjChunk>> }

\* parsed documents: a mapping with or without the key "builds"
Doc(keys, builds) == [keys |-> keys, builds |-> builds]

\* outcomes of a call: what it returned or raised
Outcome(kind, exc, doc, job) ==
    [kind |-> kind, exc |-> exc, doc |-> doc, job |-> job]
NoDoc == Doc({}, <<>>)
Pending == Outcome("pending", "", NoDoc, NoJob)
Raised(exc) == Outcome("raise", exc, NoDoc, NoJob)
ReturnedDoc(doc) == Outcome("doc", "", doc, NoJob)
ReturnedJob(job) == Outcome("job", "", NoDoc, job)
ReturnedNone == Outcome("None", "", NoDoc, NoJob)

\* json.load(open(data_file)) on a file's content
json_load(content) ==
    IF content = <<EmptyObjChunk>>
    THEN ReturnedDoc(Doc({}, <<>>))
    ELSE IF /\ Len(content) >= 2
            /\ content[1] = OpenChunk
            /\ content[Len(content)] = CloseChunk
            /\ \A i \in 2..(Len(content) - 1) : content[i].tok = "job"
    THEN ReturnedDoc(Doc({"builds"},
             [i \in 1..(Len(content) - 2) |-> content[i + 1].job]))
    ELSE Raised("ValueError")

\* request_id in job["request_ids"]: a list of ints holds no str
py_in(rid, request_ids) == rid.type = "int" /\ rid.v \in request_ids

\* the scan keeps the latest match instead of returning at the first
last_match(builds, rid) ==
    LET hits == {i \in 1..Len(builds) : py_in(rid, builds[i].request_ids)}
    IN  IF hits = {} THEN ReturnedNone
        ELSE ReturnedJob(builds[CHOOSE i \in hits : \A j \in hits : j <= i])

\* "return job" placed after the loop: without a match the job iterated
\* last is returned, and job is unbound when builds is empty
return_after_loop(builds, rid) ==
    LET hits == {i \in 1..Len(builds) : py_in(rid, builds[i].request_ids)}
    IN  IF builds = <<>> THEN Raised("NameError")
        ELSE IF hits = {} THEN ReturnedJob(builds[Len(builds)])
        ELSE ReturnedJob(builds[CHOOSE i \in hits : \A j \in hits : i <= j])

\* for job in builds: if request_id in job["request_ids"]: return job;
\* falling off the end of the function returns None
RECURSIVE first_match(_, _)
first_match(builds, rid) ==
    IF builds = <<>> THEN ReturnedNone
    ELSE IF py_in(rid, Head(builds).request_ids)
    THEN ReturnedJob(Head(builds))
    ELSE first_match(Tail(builds), rid)

\* builds = status_data.get("builds", []) instead of status_data["builds"]
scan_default_builds(doc, rid) ==
    first_match(IF "builds" \in doc.keys THEN doc.builds ELSE <<>>, rid)

\* builds = status_data["builds"] and the scan, lines 81-86
scan(doc, rid) ==
    IF "builds" \notin doc.keys THEN Raised("KeyError")
    ELSE first_match(doc.builds, rid)

\* the assert on request_id left out
type_asserts_claimed_only(claimed, rid) == claimed.type = "int"

\* assert type(request_id) is int; assert type(claimed_at) is int
type_asserts(claimed, rid) == rid.type = "int" /\ claimed.type = "int"

\* ------------------------------------------------------------ the registry
\* a registry document: entries of repository name and url, {} when empty
Repo(name, url) == [name |-> name, repo |-> url]
NoRepo == Repo("", "")
Repo1 == Repo("repo1", "https://hg.mozilla.org/releases/repo1")
Repo2 == Repo("repo2", "https://hg.mozilla.org/projects/repo2")
RealRepo == Repo("real-repo", "repo")
EmptyRegistry == <<>>
RegistryDocs == { EmptyRegistry, <<Repo1, Repo2>>, <<RealRepo>> }

\* the text of a registry document, in chunks
RegistryChunk(tok, entry) == [tok |-> tok, entry |-> entry]
registry_dump(registry) ==
    <<RegistryChunk("{", NoRepo)>>
        \o [i \in 1..Len(registry) |-> RegistryChunk("entry", registry[i])]
        \o <<RegistryChunk("}", NoRepo)>>

\* the document of a well-formed text
registry_load(text) ==
    [i \in 1..(Len(text) - 2) |-> text[i + 1].entry]

\* outcomes of a registry call
RegistryPending == [kind |-> "pending", exc |-> "", value |-> EmptyRegistry]
RegistryReturned(registry) == [kind |-> "ok", exc |-> "", value |-> registry]
RegistryRaised(exc) == [kind |-> "raise", exc |-> exc, value |-> EmptyRegistry]

\* ------------------------------------------------------------------ state
\* an absent file and a file's content
NoFile == [exists |-> FALSE, data |-> <<>>]
File(data) == [exists |-> TRUE, data |-> data]

\* requests.get: not called in this call, or it raised, or the response it
\* returned (status_code and the body iter_content has yet to yield)
Response(status, body) == [got |-> "response", status |-> status, body |-> body]
NoResponse == [got |-> "nothing", status |-> 0, body |-> <<>>]
NoConnection == [got |-> "raised", status |-> 0, body |-> <<>>]

NoFileName == data_file_name(<<0, 0, 0>>)
LaterUrl == url_of(data_file_name(<<1970, 1, 2>>))

VARIABLES
    disk,         \* working directory: file name -> NoFile or File(content)
    remote,       \* upstream: locator -> the day's builds
    tz,           \* utcoffset of the host's local zone
    fetches,      \* history: locator -> requests.get calls issued so far
    selected,     \* history: timestamp -> file names it was mapped to
    returned,     \* history: the jobs query_buildjson_info has returned
    pc,           \* thread -> line of buildjson.py it is at
    fn,           \* thread -> function the caller invoked
    unix_timestamp, \* thread -> argument unix_timestamp / claimed_at
    request_id,   \* thread -> argument request_id
    data_file,    \* thread -> local data_file of _daily_jobs
    r,            \* thread -> requests.get's response, the body not yet
                  \*           iterated
    status_data,  \* thread -> value _daily_jobs returned
    result,       \* thread -> outcome of the call
    REPOSITORIES,      \* registry, memory tier: the module's global
    REPOSITORIES_FILE, \* registry, disk tier: NoFile or File(text)
    branches,          \* registry, remote tier: the upstream document
    qpc,          \* where the call of query_repositories is at
    clobber,      \* its argument
    payload,      \* the document it fetched
    tiers,        \* the tiers it has consulted, in order
    qresult       \* its outcome

\* the state of the archive cache, and of the registry
buildjson == <<disk, remote, tz, fetches, selected, returned, pc, fn,
               unix_timestamp, request_id, data_file, r, status_data, result>>
registry == <<REPOSITORIES, REPOSITORIES_FILE, branches, qpc, clobber,
              payload, tiers, qresult>>

vars == <<disk, remote, tz, fetches, selected, returned, pc, fn,
          unix_timestamp, request_id, data_file, r, status_data, result,
          REPOSITORIES, REPOSITORIES_FILE, branches, qpc, clobber,
          payload, tiers, qresult>>

\* what no step of buildjson.py changes
env == <<remote, tz, registry>>
args == <<fn, unix_timestamp, request_id, data_file>>

\* the test for the local file never finds it
os_path_exists_never(d, file) == FALSE

\* os.path.exists(data_file)
os_path_exists(d, file) == d[file].exists

\* the registry at process start: memory empty, no snapshot yet
InitRegistry ==
    /\ REPOSITORIES = EmptyRegistry
    /\ REPOSITORIES_FILE = NoFile
    /\ branches = <<Repo1, Repo2>>
    /\ qpc = "idle"
    /\ clobber = FALSE
    /\ payload = EmptyRegistry
    /\ tiers = <<>>
    /\ qresult = RegistryPending

Init ==
    /\ InitRegistry
    /\ disk = [f \in FileNames |-> NoFile]
    /\ remote \in {rm \in [Urls -> Archives \cup {<<LaterJob>>}] :
                      \A u \in Urls : IF u = LaterUrl
                                      THEN rm[u] = <<LaterJob>>
                                      ELSE rm[u] \in Archives}
    /\ tz \in TZOffsets
    /\ fetches = [u \in Urls |-> 0]
    /\ selected = [ts \in TimestampInts |-> {}]
    /\ returned = {}
    /\ pc = [t \in Threads |-> "idle"]
    /\ fn = [t \in Threads |-> ""]
    /\ unix_timestamp = [t \in Threads |-> NoValue]
    /\ request_id = [t \in Threads |-> NoValue]
    /\ data_file = [t \in Threads |-> NoFileName]
    /\ r = [t \in Threads |-> NoResponse]
    /\ status_data = [t \in Threads |-> NoDoc]
    /\ result = [t \in Threads |-> Pending]

\* ---------------------------------------------------------------- actions
Callable(t) == pc[t] \in {"idle", "done"}

\* history of the jobs returned: which job for which file and request id,
\* and whether once or again
Record(history, file, rid, job) ==
    LET once == [file |-> file, rid |-> rid, job |-> job, again |-> FALSE]
        again == [once EXCEPT !.again = TRUE]
    IN  IF once \in history \/ again \in history
        THEN (history \ {once}) \cup {again}
        ELSE history \cup {once}

\* the call ends: it returns or raises, its locals are gone
Finish(t, outcome) ==
    /\ pc' = [pc EXCEPT ![t] = "done"]
    /\ result' = [result EXCEPT ![t] = outcome]
    /\ r' = [r EXCEPT ![t].body = <<>>]
    /\ status_data' = [status_data EXCEPT ![t] = NoDoc]
    /\ returned' = IF outcome.kind = "job"
                   THEN Record(returned, data_file[t], request_id[t],
                               outcome.job)
                   ELSE returned

\* lines 26-31 of _daily_jobs: the date and file name of the timestamp on
\* the host's clock, then the test for the local file.  fromtimestamp
\* raises TypeError on a str
Enter(t, f, ts, rid) ==
    /\ fn' = [fn EXCEPT ![t] = f]
    /\ unix_timestamp' = [unix_timestamp EXCEPT ![t] = ts]
    /\ request_id' = [request_id EXCEPT ![t] = rid]
    /\ r' = [r EXCEPT ![t] = NoResponse]
    /\ status_data' = [status_data EXCEPT ![t] = NoDoc]
    /\ IF ts.type = "str"
       THEN /\ pc' = [pc EXCEPT ![t] = "done"]
            /\ result' = [result EXCEPT ![t] = Raised("TypeError")]
            /\ data_file' = [data_file EXCEPT ![t] = NoFileName]
            /\ UNCHANGED selected
       ELSE LET file == data_file_name(strftime_date(ts.v, tz)) IN
            /\ pc' = [pc EXCEPT ![t] =
                         IF os_path_exists(disk, file)
                         THEN "line42" ELSE "line36"]
            /\ result' = [result EXCEPT ![t] = Pending]
            /\ data_file' = [data_file EXCEPT ![t] = file]
            /\ selected' = [selected EXCEPT ![ts.v] = @ \cup {file}]
    /\ UNCHANGED <<disk, fetches, returned, env>>

\* a caller invokes _daily_jobs(ts)
daily_jobs(t, ts) ==
    /\ Callable(t)
    /\ Enter(t, "_daily_jobs", ts, NoValue)

\* a caller invokes query_buildjson_info(claimed_at, rid): lines 77-80
query_buildjson_info(t, claimed, rid) ==
    /\ Callable(t)
    /\ IF type_asserts(claimed, rid)
       THEN Enter(t, "query_buildjson_info", claimed, rid)
       ELSE /\ fn' = [fn EXCEPT ![t] = "query_buildjson_info"]
            /\ unix_timestamp' = [unix_timestamp EXCEPT ![t] = claimed]
            /\ request_id' = [request_id EXCEPT ![t] = rid]
            /\ r' = [r EXCEPT ![t] = NoResponse]
            /\ status_data' = [status_data EXCEPT ![t] = NoDoc]
            /\ data_file' = [data_file EXCEPT ![t] = NoFileName]
            /\ pc' = [pc EXCEPT ![t] = "done"]
            /\ result' = [result EXCEPT ![t] = Raised("AssertionError")]
            /\ UNCHANGED <<disk, fetches, selected, returned, env>>

\* line 36: r = requests.get(url).  The request is issued; the server
\* answers 200 with the day's archive, or a non-success status with an
\* error body
requests_get(t) ==
    /\ pc[t] = "line36"
    /\ LET url == url_of(data_file[t]) IN
       /\ fetches[url] < MaxFetches
       /\ fetches' = [fetches EXCEPT ![url] = @ + 1]
       /\ \E resp \in {Response(200, json_dump(remote[url]))}
                      \cup {Response(404, b) : b \in ErrorBodies} :
              r' = [r EXCEPT ![t] = resp]
    /\ pc' = [pc EXCEPT ![t] = "line38"]
    /\ UNCHANGED <<disk, selected, returned, env, args, status_data, result>>

\* line 36: the request is issued and requests.get raises (no connection)
requests_get_raises(t) ==
    /\ pc[t] = "line36"
    /\ LET url == url_of(data_file[t]) IN
       /\ fetches[url] < MaxFetches
       /\ fetches' = [fetches EXCEPT ![url] = @ + 1]
    /\ pc' = [pc EXCEPT ![t] = "done"]
    /\ result' = [result EXCEPT ![t] = Raised("ConnectionError")]
    /\ r' = [r EXCEPT ![t] = NoConnection]
    /\ UNCHANGED <<disk, selected, returned, env, args, status_data>>

\* line 38: open(data_file, 'wb') creates the file or truncates it
open_wb(t) ==
    /\ pc[t] = "line38"
    /\ disk' = [disk EXCEPT ![data_file[t]] = File(<<>>)]
    /\ pc' = [pc EXCEPT ![t] = "line39"]
    /\ UNCHANGED <<fetches, selected, returned, env, args, r, status_data,
                   result>>

\* line 38: open raises, the directory is not writable
open_wb_raises(t) ==
    /\ pc[t] = "line38"
    /\ Finish(t, Raised("IOError"))
    /\ UNCHANGED <<disk, fetches, selected, env, args>>

\* lines 39-40: the next chunk of the body is appended to the file
fd_write(t) ==
    /\ pc[t] = "line39"
    /\ r[t].body # <<>>
    /\ disk' = [disk EXCEPT ![data_file[t]] =
                   File(Append(@.data, Head(r[t].body)))]
    /\ r' = [r EXCEPT ![t].body = Tail(@)]
    /\ UNCHANGED <<fetches, selected, returned, env, args, pc, status_data,
                   result>>

\* the broken transfer is retried inside the call: back to the request
iter_content_retries(t) ==
    /\ pc[t] = "line39"
    /\ r[t].body # <<>>
    /\ pc' = [pc EXCEPT ![t] = "line36"]
    /\ UNCHANGED <<disk, fetches, selected, returned, env, args, r,
                   status_data, result>>

\* line 39: the transfer breaks off and iter_content raises; the with block
\* closes the file and leaves what was written
iter_content_raises(t) ==
    /\ pc[t] = "line39"
    /\ r[t].body # <<>>
    /\ Finish(t, Raised("ChunkedEncodingError"))
    /\ UNCHANGED <<disk, fetches, selected, env, args>>

\* lines 39-40: the body is exhausted, the with block closes the file
fd_close(t) ==
    /\ pc[t] = "line39"
    /\ r[t].body = <<>>
    /\ pc' = [pc EXCEPT ![t] = "line42"]
    /\ UNCHANGED <<disk, fetches, selected, returned, env, args, r,
                   status_data, result>>

\* line 42: return json.load(open(data_file)); open raises IOError when
\* the file is not there
json_load_file(t) ==
    /\ pc[t] = "line42"
    /\ LET loaded == IF disk[data_file[t]].exists
                     THEN json_load(disk[data_file[t]].data)
                     ELSE Raised("IOError")
       IN  IF loaded.kind = "raise" \/ fn[t] = "_daily_jobs"
           THEN Finish(t, loaded)
           ELSE /\ pc' = [pc EXCEPT ![t] = "line81"]
                /\ status_data' = [status_data EXCEPT ![t] = loaded.doc]
                /\ UNCHANGED <<r, result, returned>>
    /\ UNCHANGED <<disk, fetches, selected, env, args>>

\* lines 81-86 of query_buildjson_info
scan_builds(t) ==
    /\ pc[t] = "line81"
    /\ Finish(t, scan(status_data[t], request_id[t]))
    /\ UNCHANGED <<disk, fetches, selected, env, args>>

\* the process ends, at any line, and a new one starts; the host's zone
\* setting may differ; the working directory stays
ProcessRestart ==
    /\ tz' \in TZOffsets
    /\ pc' = [t \in Threads |-> "idle"]
    /\ fn' = [t \in Threads |-> ""]
    /\ unix_timestamp' = [t \in Threads |-> NoValue]
    /\ request_id' = [t \in Threads |-> NoValue]
    /\ data_file' = [t \in Threads |-> NoFileName]
    /\ r' = [t \in Threads |-> NoResponse]
    /\ status_data' = [t \in Threads |-> NoDoc]
    /\ result' = [t \in Threads |-> Pending]
    /\ REPOSITORIES' = EmptyRegistry
    /\ qpc' = "idle"
    /\ clobber' = FALSE
    /\ payload' = EmptyRegistry
    /\ tiers' = <<>>
    /\ qresult' = RegistryPending
    /\ UNCHANGED <<disk, remote, fetches, selected, returned,
                   REPOSITORIES_FILE, branches>>

\* ------------------------------------------------- actions, the registry
\* a populated memory tier answers, clobber or not
memory_hit_ignores_clobber(memory, clob) == memory # EmptyRegistry

\* the memory tier is never used
memory_hit_never(memory, clob) == FALSE

\* the memory tier answers: it is not empty and clobber is not asked for
memory_hit(memory, clob) == ~clob /\ memory # EmptyRegistry

\* the snapshot file is never found
snapshot_exists_never(file) == FALSE

\* the snapshot file is there
snapshot_exists(file) == file.exists

\* the memory tier is left as it was
populate_forgotten(memory, value) == memory

\* the memory tier after a resolution that supplied value
populate(memory, value) == value

\* the call of query_repositories ends
RegistryFinish(outcome) ==
    /\ qpc' = "done"
    /\ qresult' = outcome

\* a caller invokes query_repositories(clobber): with clobber the memory
\* and disk tiers are skipped, without it the memory tier is consulted first
query_repositories(clob) ==
    /\ qpc \in {"idle", "done"}
    /\ clobber' = clob
    /\ payload' = EmptyRegistry
    /\ IF memory_hit(REPOSITORIES, clob)
       THEN /\ tiers' = <<"memory">>
            /\ RegistryFinish(RegistryReturned(REPOSITORIES))
       ELSE IF clob
       THEN /\ tiers' = <<>>
            /\ qpc' = "remote"
            /\ qresult' = RegistryPending
       ELSE /\ tiers' = <<"memory">>
            /\ qpc' = "disk"
            /\ qresult' = RegistryPending
    /\ UNCHANGED <<buildjson, REPOSITORIES, REPOSITORIES_FILE, branches>>

\* the disk tier: a snapshot that is there is loaded into the memory tier
\* and returned; without one the remote tier is next
read_snapshot ==
    /\ qpc = "disk"
    /\ tiers' = Append(tiers, "disk")
    /\ IF snapshot_exists(REPOSITORIES_FILE)
       THEN LET loaded == registry_load(REPOSITORIES_FILE.data) IN
            /\ REPOSITORIES' = populate(REPOSITORIES, loaded)
            /\ RegistryFinish(RegistryReturned(loaded))
       ELSE /\ qpc' = "remote"
            /\ UNCHANGED <<REPOSITORIES, qresult>>
    /\ UNCHANGED <<buildjson, REPOSITORIES_FILE, branches, clobber, payload>>

\* the remote tier answers: the document is fetched and replaces the
\* memory tier
fetch_registry ==
    /\ qpc = "remote"
    /\ tiers' = Append(tiers, "remote")
    /\ LET fetched == registry_load(registry_dump(branches)) IN
       /\ payload' = fetched
       /\ REPOSITORIES' = populate(REPOSITORIES, fetched)
    /\ qpc' = "persist"
    /\ UNCHANGED <<buildjson, REPOSITORIES_FILE, branches, clobber, qresult>>

\* the remote tier fails: no tier is left
fetch_registry_fails ==
    /\ qpc = "remote"
    /\ tiers' = Append(tiers, "remote")
    /\ RegistryFinish(RegistryRaised("RegistryUnavailable"))
    /\ UNCHANGED <<buildjson, REPOSITORIES, REPOSITORIES_FILE, branches,
                   clobber, payload>>

\* every remote fetch rewrites the snapshot; the fetched document is returned
persist_snapshot ==
    /\ qpc = "persist"
    /\ REPOSITORIES_FILE' = File(registry_dump(payload))
    /\ RegistryFinish(RegistryReturned(payload))
    /\ UNCHANGED <<buildjson, REPOSITORIES, branches, clobber, payload, tiers>>

\* upstream publishes another registry document
upstream_update ==
    /\ branches' \in RegistryDocs \ {branches}
    /\ UNCHANGED <<buildjson, REPOSITORIES, REPOSITORIES_FILE, qpc, clobber,
                   payload, tiers, qresult>>

Step(t) ==
    \/ \E ts \in TimestampValues : daily_jobs(t, ts)
    \/ \E ts \in TimestampValues, rid \in RequestIdValues :
           query_buildjson_info(t, ts, rid)
    \/ requests_get(t)
    \/ requests_get_raises(t)
    \/ open_wb(t)
    \/ open_wb_raises(t)
    \/ fd_write(t)
    \/ iter_content_raises(t)
    \/ fd_close(t)
    \/ json_load_file(t)
    \/ scan_builds(t)

\* calls made one after another by a single caller
Next == (\E t \in Serial : Step(t)) \/ ProcessRestart

Spec == Init /\ [][Next]_vars

\* the registry alone: calls of query_repositories by a single caller,
\* upstream updates and process restarts
InitOfRegistry ==
    /\ Init
    /\ tz = 0
    /\ \A u \in Urls \ {LaterUrl} : remote[u] = <<>>

NextRegistry ==
    \/ \E clob \in BOOLEAN : query_repositories(clob)
    \/ read_snapshot
    \/ fetch_registry
    \/ fetch_registry_fails
    \/ persist_snapshot
    \/ upstream_update
    \/ ProcessRestart

SpecRegistry == InitOfRegistry /\ [][NextRegistry]_vars

\* calls of _daily_jobs for different days, interleaved without locking:
\* on a host in UTC, each worker thread looks up a day of its own
Workers == {1, 2}
OwnTimestamp(t) == IF t = 1 THEN PyInt(86000) ELSE PyInt(90000)

InitDays == Init /\ tz = 0

StepDays(t) ==
    \/ daily_jobs(t, OwnTimestamp(t))
    \/ requests_get(t)
    \/ requests_get_raises(t)
    \/ open_wb(t)
    \/ open_wb_raises(t)
    \/ fd_write(t)
    \/ iter_content_raises(t)
    \/ fd_close(t)
    \/ json_load_file(t)

NextDays == \E t \in Workers : StepDays(t)

SpecDays == InitDays /\ [][NextDays]_vars

\* ------------------------------------------------------------ properties
IsQuery(t) == fn[t] = "query_buildjson_info"
IntArgs(t) == unix_timestamp[t].type = "int" /\ request_id[t].type = "int"
Range(seq) == {seq[i] : i \in 1..Len(seq)}
Contains(job, rid) == rid.type = "int" /\ rid.v \in job.request_ids
\* the step in which thread t enters _daily_jobs and gets past line 31
Enters(t) == Callable(t) /\ pc'[t] \in {"line36", "line42"}

\* C1 as stated: for every date, at most one remote fetch of the date's
\* archive is ever issued.
C1_AtMostOneFetch == \A u \in Urls : fetches[u] <= 1

\* C1, amended: once the local file of a date exists, no step issues a
\* remote fetch of that date's archive, in this process or after a restart.
C1_NoFetchOnceFileExists ==
    [][\A f \in FileNames :
          disk[f].exists => fetches'[url_of(f)] = fetches[url_of(f)]]_vars

\* a later call found the file of the one fetch and skipped the request
C1_Witness ==
    \E t \in Threads :
        /\ pc[t] = "line42"
        /\ r[t] = NoResponse
        /\ disk[data_file[t]].exists
        /\ fetches[url_of(data_file[t])] = 1

\* C2: after a call of _daily_jobs that failed (the request raised, the
\* file could not be opened, the transfer broke off, the content did not
\* parse), the next call for the same date issues the remote fetch again.
C2_FailedAttemptFetchedAgain ==
    [][\A t \in Threads :
          ( /\ pc[t] = "done"
            /\ result[t].kind = "raise"
            /\ result[t].exc \in {"ConnectionError", "IOError",
                                  "ChunkedEncodingError", "ValueError"}
            /\ Enters(t)
            /\ data_file'[t] = data_file[t] )
          => pc'[t] = "line36"]_vars

\* C3: a call that finds the local file issues no request and goes on to
\* parse it; what it returns is the parse of the file's content as it is;
\* and a file on disk that is not being written by a call in progress
\* keeps its content in every step.
C3_CachedFileReused ==
    [][ /\ \A t \in Threads :
              (Enters(t) /\ disk[data_file'[t]].exists)
              => (pc'[t] = "line42" /\ r'[t] = NoResponse
                  /\ fetches' = fetches /\ disk' = disk)
        /\ \A t \in Threads :
              (pc[t] = "line42" /\ r[t] = NoResponse
               /\ pc'[t] \in {"done", "line81"})
              => LET parsed == json_load(disk[data_file[t]].data) IN
                 /\ disk[data_file[t]].exists
                 /\ fetches' = fetches /\ disk' = disk
                 /\ IF pc'[t] = "line81"
                    THEN parsed.kind = "doc" /\ status_data'[t] = parsed.doc
                    ELSE result'[t] = parsed
        /\ \A f \in FileNames :
              (disk[f].exists
               /\ ~ \E t \in Threads : pc[t] = "line39" /\ data_file[t] = f)
              => disk'[f] = disk[f] ]_vars

\* _daily_jobs returned the day's builds from the file, without a request
C3_Witness ==
    \E t \in Threads :
        /\ pc[t] = "done"
        /\ fn[t] = "_daily_jobs"
        /\ r[t] = NoResponse
        /\ result[t].kind = "doc"
        /\ result[t].doc.builds # <<>>
        /\ result[t] = json_load(disk[data_file[t]].data)

\* C4: a response with a non-success status makes the call fail with a
\* transfer error, before the file is opened, and no error body is ever
\* the content of a local archive file.
C4_ErrorStatusRaises ==
    /\ \A t \in Threads :
          (r[t].got = "response" /\ r[t].status # 200)
          => (pc[t] = "done" /\ result[t].kind = "raise"
              /\ result[t].exc = "HTTPError")
    /\ \A f \in FileNames : disk[f].exists => disk[f].data \notin ErrorBodies

\* C5: a job that query_buildjson_info returns is the earliest entry, in
\* the order of the file's "builds", whose request_ids contains request_id,
\* and it is a job of the upstream archive of that day; None is returned
\* only when no entry contains request_id.
C5_FirstMatchInFileOrder ==
    \A t \in Threads :
        (pc[t] = "done" /\ IsQuery(t) /\ result[t].kind \in {"job", "None"})
        => LET parsed == json_load(disk[data_file[t]].data)
               builds == parsed.doc.builds
               rid == request_id[t]
           IN  /\ parsed.kind = "doc"
               /\ result[t].kind = "None"
                  => \A i \in 1..Len(builds) : ~Contains(builds[i], rid)
               /\ result[t].kind = "job"
                  => /\ \E i \in 1..Len(builds) :
                           /\ builds[i] = result[t].job
                           /\ Contains(builds[i], rid)
                           /\ \A j \in 1..(i - 1) : ~Contains(builds[j], rid)
                     /\ result[t].job \in Range(remote[url_of(data_file[t])])

\* two different entries contain the id and the earlier one was returned
C5_Witness ==
    \E t \in Threads :
        /\ pc[t] = "done" /\ IsQuery(t) /\ result[t].kind = "job"
        /\ LET builds == json_load(disk[data_file[t]].data).doc.builds IN
           /\ Len(builds) = 2
           /\ builds[1] # builds[2]
           /\ Contains(builds[1], request_id[t])
           /\ Contains(builds[2], request_id[t])
           /\ result[t].job = builds[1]

\* C6: when _daily_jobs has returned the day's document and no entry of
\* its "builds" contains request_id, the scan ends the call by returning
\* None, not by raising.
C6_NoMatchReturnsNone ==
    [][\A t \in Threads :
          ( /\ pc[t] = "line81" /\ pc'[t] = "done"
            /\ "builds" \in status_data[t].keys
            /\ \A i \in 1..Len(status_data[t].builds) :
                   ~Contains(status_data[t].builds[i], request_id[t]) )
          => result'[t] = ReturnedNone]_vars

\* None came back from a day whose file holds builds
C6_Witness ==
    \E t \in Threads :
        /\ pc[t] = "done" /\ IsQuery(t)
        /\ result[t] = ReturnedNone
        /\ json_load(disk[data_file[t]].data).doc.builds # <<>>

\* the lookup found no local file and did not obtain the archive: the
\* request raised or was answered with a non-success status
Unreachable(t) ==
    /\ pc[t] = "done" /\ IsQuery(t)
    /\ \/ r[t].got = "raised"
       \/ r[t].got = "response" /\ r[t].status # 200

\* C7 as stated: a lookup for a day whose archive is not reachable returns
\* the not-found value None.
C7_UnreachableReturnsNone ==
    \A t \in Threads : Unreachable(t) => result[t] = ReturnedNone

\* C7, amended: a lookup for a day whose archive is not reachable ends in
\* an exception raised to the caller, never in a returned value.
C7_UnreachableRaises ==
    \A t \in Threads : Unreachable(t) => result[t].kind = "raise"

\* the remote answered 404 with {} and the lookup raised KeyError
C7_Witness ==
    \E t \in Threads :
        /\ Unreachable(t)
        /\ r[t].status = 404
        /\ result[t] = Raised("KeyError")

\* C8 as stated: whenever the upstream archive of the day holds an entry
\* containing request_id, a finished lookup has returned the earliest such
\* entry, and that day's archive has been fetched at most once.
C8_SameRecordOneFetch ==
    \A t \in Threads :
        (pc[t] = "done" /\ IsQuery(t) /\ IntArgs(t))
        => LET url == url_of(data_file[t])
               builds == remote[url]
               hits == {i \in 1..Len(builds) :
                           Contains(builds[i], request_id[t])}
           IN  hits # {}
               => /\ \E i \in hits :
                        /\ \A j \in hits : i <= j
                        /\ result[t] = ReturnedJob(builds[i])
                  /\ fetches[url] <= 1

\* C8, amended: once a lookup has returned a job for a day's file and a
\* request id, every lookup for that file and id that finishes returns
\* that same job, and no step fetches that day's archive again.
C8_RepeatedLookupSameRecord ==
    [][\A x \in returned :
          /\ fetches'[url_of(x.file)] = fetches[url_of(x.file)]
          /\ \A t \in Threads :
                (pc'[t] = "done" /\ fn'[t] = "query_buildjson_info"
                 /\ data_file'[t] = x.file /\ request_id'[t] = x.rid)
                => result'[t] = ReturnedJob(x.job)]_vars

\* the same job came back a second time, this time from the file
C8_Witness ==
    \E t \in Threads, x \in returned :
        /\ x.again
        /\ pc[t] = "done" /\ IsQuery(t)
        /\ r[t] = NoResponse
        /\ data_file[t] = x.file /\ request_id[t] = x.rid
        /\ result[t] = ReturnedJob(x.job)

\* C9: the file a timestamp is mapped to depends on the timestamp alone:
\* no timestamp is mapped to two files, whatever the zone of the host.
C9_DateDependsOnTimestampOnly ==
    \A ts \in TimestampInts : Cardinality(selected[ts]) <= 1

\* C10: a call of query_buildjson_info with a claimed_at or request_id
\* that is not an int ends at once with AssertionError, and the step
\* leaves the disk and the count of requests as they were.
C10_NonIntegerRejected ==
    [][\A t \in Threads :
          ( /\ Callable(t)
            /\ fn'[t] = "query_buildjson_info"
            /\ \/ unix_timestamp'[t].type # "int"
               \/ request_id'[t].type # "int" )
          => /\ pc'[t] = "done"
             /\ result'[t] = Raised("AssertionError")
             /\ disk' = disk
             /\ fetches' = fetches]_vars

\* a str request_id was rejected while a day's file was on disk
C10_Witness ==
    \E t \in Threads :
        /\ pc[t] = "done" /\ IsQuery(t)
        /\ unix_timestamp[t].type = "int"
        /\ request_id[t].type = "str"
        /\ result[t] = Raised("AssertionError")
        /\ \E f \in FileNames : disk[f].exists

\* a step that is a call of query_repositories: not a restart, not an
\* upstream update
RegistryCall == qpc \in {"idle", "done"} /\ qpc' # "idle" /\ branches' = branches
\* a step of the call in progress
RegistryStep == qpc \notin {"idle", "done"} /\ qpc' # "idle"
                /\ branches' = branches

\* C11: a call with clobber consults the remote tier and nothing else,
\* whatever the memory tier and the snapshot hold; the document it fetches
\* is the remote one, and when the call returns, what it returns, the
\* memory tier and the snapshot are that document.
C11_ClobberOverwritesAllTiers ==
    [][ /\ (RegistryCall /\ clobber') => (qpc' = "remote" /\ tiers' = <<>>)
        /\ (RegistryStep /\ clobber /\ qpc = "remote")
           => /\ tiers' = <<"remote">>
              /\ qpc' = "persist" => payload' = branches
        /\ (clobber' /\ qpc' = "done")
           => /\ tiers' = <<"remote">>
              /\ qresult'.kind = "ok"
                 => /\ qresult'.value = payload'
                    /\ REPOSITORIES' = payload'
                    /\ REPOSITORIES_FILE' = File(registry_dump(payload'))
      ]_vars

\* a call with clobber has fetched a document that differs from the valid
\* snapshot on disk, which it is about to overwrite
C11_Witness ==
    /\ clobber /\ qpc = "persist"
    /\ payload # EmptyRegistry
    /\ REPOSITORIES = payload
    /\ REPOSITORIES_FILE.exists
    /\ registry_load(REPOSITORIES_FILE.data) \notin {EmptyRegistry, payload}

\* C12: a call without clobber that finds the memory tier not empty
\* returns the memory tier at once: it consults no other tier and leaves
\* the memory tier and the snapshot as they are.
C12_MemoryTierServes ==
    [][ (RegistryCall /\ ~clobber' /\ REPOSITORIES # EmptyRegistry)
        => /\ qpc' = "done"
           /\ qresult' = RegistryReturned(REPOSITORIES)
           /\ tiers' = <<"memory">>
           /\ REPOSITORIES' = REPOSITORIES
           /\ REPOSITORIES_FILE' = REPOSITORIES_FILE ]_vars

\* the memory tier answered although the remote document has changed
C12_Witness ==
    /\ qpc = "done" /\ ~clobber
    /\ tiers = <<"memory">>
    /\ qresult = RegistryReturned(REPOSITORIES)
    /\ REPOSITORIES # EmptyRegistry
    /\ branches # REPOSITORIES
    /\ REPOSITORIES_FILE.exists

\* C13: a call without clobber that finds the memory tier empty goes to
\* the disk tier, and when the snapshot is there it returns the document
\* of the snapshot without consulting the remote tier.
C13_SnapshotServes ==
    [][ /\ (RegistryCall /\ ~clobber' /\ REPOSITORIES = EmptyRegistry)
           => (qpc' = "disk" /\ tiers' = <<"memory">>)
        /\ (RegistryStep /\ qpc = "disk" /\ REPOSITORIES_FILE.exists)
           => /\ qpc' = "done"
              /\ qresult' = RegistryReturned(
                                registry_load(REPOSITORIES_FILE.data))
              /\ tiers' = <<"memory", "disk">>
              /\ REPOSITORIES_FILE' = REPOSITORIES_FILE ]_vars

\* the snapshot was returned although the remote document differs from it
C13_Witness ==
    /\ qpc = "done" /\ ~clobber
    /\ tiers = <<"memory", "disk">>
    /\ qresult.kind = "ok"
    /\ qresult.value # EmptyRegistry
    /\ qresult.value = registry_load(REPOSITORIES_FILE.data)
    /\ qresult.value # branches

\* C14: when a call of query_repositories has returned, the memory tier is
\* the document it returned; and when the call fetched from the remote
\* tier, the snapshot is the text of the fetched document, which is the
\* document returned.
C14_TiersFollowResolution ==
    (qpc = "done" /\ qresult.kind = "ok")
    => /\ REPOSITORIES = qresult.value
       /\ (\E i \in 1..Len(tiers) : tiers[i] = "remote")
          => /\ qresult.value = payload
             /\ REPOSITORIES_FILE = File(registry_dump(payload))

\* a call without clobber went through all three tiers and returned
C14_Witness ==
    /\ qpc = "done" /\ qresult.kind = "ok"
    /\ tiers = <<"memory", "disk", "remote">>
    /\ qresult.value # EmptyRegistry
    /\ REPOSITORIES = qresult.value

\* C15: within one call of _daily_jobs a request is issued only after the
\* test for the local file has found none, and only by a call that has
\* issued none before; line 36 is entered from the test alone, never again;
\* and the file is parsed at line 42 only, which is reached either from
\* the test that found the file or after the whole body has been written.
C15_CheckThenFetchThenParse ==
    [][\A t \in Threads :
          /\ \A u \in Urls :
                (fetches'[u] # fetches[u] /\ pc'[t] # pc[t])
                => /\ pc[t] = "line36"
                   /\ url_of(data_file[t]) = u
                   /\ fetches'[u] = fetches[u] + 1
                   /\ r[t] = NoResponse
                   /\ r'[t].got # "nothing"
                   /\ ~disk[data_file[t]].exists
                   /\ pc'[t] \in {"line38", "done"}
          /\ (pc'[t] = "line36" /\ pc[t] # "line36")
             => (Callable(t) /\ ~disk[data_file'[t]].exists)
          /\ (pc'[t] = "line42" /\ pc[t] # "line42")
             => \/ Callable(t) /\ disk[data_file'[t]].exists
                \/ pc[t] = "line39" /\ r[t].body = <<>>
          /\ (result'[t].kind = "doc" \/ status_data'[t] # NoDoc)
             => (pc[t] = "line42" \/ (pc[t] = pc'[t] /\ result'[t] = result[t]
                                      /\ status_data'[t] = status_data[t]))
      ]_vars

\* a call tested, fetched once, wrote the file and returned its parse
C15_Witness ==
    \E t \in Threads :
        /\ pc[t] = "done" /\ fn[t] = "_daily_jobs"
        /\ r[t].got = "response" /\ r[t].status = 200
        /\ result[t].kind = "doc"
        /\ result[t].doc.builds # <<>>
        /\ fetches[url_of(data_file[t])] = 1

\* the bodies a locator can answer with, for a status
BodiesOf(status, file) ==
    IF status = 200 THEN {json_dump(remote[<<BUILDJSON_DATA, "/", file, ".gz">>])}
    ELSE ErrorBodies
IsPrefix(s, b) == Len(s) <= Len(b) /\ \A i \in 1..Len(s) : s[i] = b[i]

\* what a call of _daily_jobs that runs alone ends with: the parse of the
\* file it found; or ConnectionError and no file; or, with a response,
\* IOError and no file, or ChunkedEncodingError and part of the body in
\* the file, or the whole body in the file and its parse
SerialOutcome(t) ==
    LET f == data_file[t] IN
    \/ /\ r[t].got = "nothing"
       /\ disk[f].exists
       /\ result[t] = json_load(disk[f].data)
    \/ /\ r[t].got = "raised"
       /\ ~disk[f].exists
       /\ result[t] = Raised("ConnectionError")
    \/ /\ r[t].got = "response"
       /\ \E body \in BodiesOf(r[t].status, f) :
             \/ result[t] = Raised("IOError") /\ ~disk[f].exists
             \/ /\ result[t] = Raised("ChunkedEncodingError")
                /\ disk[f].exists
                /\ IsPrefix(disk[f].data, body) /\ disk[f].data # body
             \/ disk[f] = File(body) /\ result[t] = json_load(body)

\* C16: with calls of _daily_jobs for different days interleaved, a step
\* changes no file but the one of the day of the call that takes it, and
\* every call ends as a call that runs alone does.
C16_DaysDoNotInterfere ==
    [][ /\ \A f \in FileNames :
              disk'[f] # disk[f]
              => \E t \in Threads :
                    /\ data_file[t] = f
                    /\ pc[t] \in {"line38", "line39"}
                    /\ (pc'[t] # pc[t] \/ r'[t] # r[t])
        /\ \A t \in Threads : pc'[t] = "done" => SerialOutcome(t)'
      ]_vars

\* the two calls are writing the files of their days at the same time
C16_Witness ==
    /\ pc[1] = "line39" /\ pc[2] = "line39"
    /\ data_file[1] # data_file[2]
    /\ disk[data_file[1]].data # <<>> /\ r[1].body # <<>>
    /\ disk[data_file[2]].data # <<>> /\ r[2].body # <<>>

\* a content that is a whole body of the file's locator
Complete(f) == disk[f].data \in BodiesOf(200, f) \cup ErrorBodies

\* C17: a call of _daily_jobs that finds the local file present parses a
\* completely written body, never a part of one.
C17_NoPartialFileParsed ==
    \A t \in Threads :
        (pc[t] = "line42" /\ r[t].got = "nothing") => Complete(data_file[t])

\* C18: the content of every local file builds-<D>.js is a body, or the
\* part written so far of a body, that the locator
\* <BUILDJSON_DATA>/builds-<D>.js.gz of the same day answers with.
C18_FileHoldsItsOwnDay ==
    \A f \in FileNames :
        disk[f].exists
        => \E body \in BodiesOf(200, f) \cup ErrorBodies :
              IsPrefix(disk[f].data, body)

\* the files of two days are on disk, each the archive of its own day
C18_Witness ==
    \E f, g \in FileNames :
        /\ f # g
        /\ disk[f].exists /\ disk[f].data \in BodiesOf(200, f)
        /\ disk[g].exists /\ disk[g].data \in BodiesOf(200, g)
        /\ disk[f].data # disk[g].data
        /\ Len(disk[f].data) > 2

====
